---- MODULE Spec2Model ----
(***************************************************************************)
(* State-machine model of the lazy hierarchical resource navigator         *)
(* (frontend/src/components/ResourceGraph.tsx): the flat node list, the    *)
(* asynchronous expandNode / loadRoot continuations that are in flight,    *)
(* the banner state, the reset snapshot and the zoom transform.            *)
(*                                                                         *)
(* All handlers run on the single UI thread; every `await` splits a        *)
(* handler into one action for the part before the call and one action    *)
(* for the continuation that runs when the call returns or fails.          *)
(* An absent optional flag (expanded, loading) is modelled as FALSE: the   *)
(* code only ever tests these flags for truthiness.  The display-only      *)
(* fields label and count and the second error line `nodeError` are left   *)
(* out.  A d3 transition is modelled by the transform it ends in.          *)
(***************************************************************************)
EXTENDS Integers, Sequences, FiniteSets, Bags, TLC

(***************************************************************************)
(* Node budgets.  The source values are 120 / 800 / 1200 / 120 / 200; the  *)
(* model keeps their order (MAX_CHILDREN = IDEAL_MAX_NODES <               *)
(* INITIAL_EXPAND_CAP < MAX_NODES_TOTAL < MAX_NODES_HARD) on a catalogue   *)
(* of a handful of nodes so that every budget branch is reachable.         *)
(***************************************************************************)
MAX_CHILDREN == 2
MAX_NODES_TOTAL == 4
MAX_NODES_HARD == 6
IDEAL_MAX_NODES == 2
INITIAL_EXPAND_CAP == 3

\* Bounds: the expandNode calls in flight at one time against an endpoint
\* that never fails and against one that may fail, the loadRoot calls in
\* flight, and the ids that failed calls have marked at one time.
MaxPending == 2
MaxPendingFaulty == 1
MaxLoads == 1
MaxErrored == 1

\* Bounds of the viewport input: the zoom buttons are followed up to
\* MaxZoomExp steps away from a scale reached otherwise, a drag moves the
\* view by up to MaxPan units.
MaxZoomExp == 1
MaxPan == 1

\* d3.zoom().scaleExtent([0.4, 2]), in tenths.
minScale == 4
maxScale == 20

levelOrder == <<"group", "major", "course", "type">>

\* levelOrder.indexOf(level), 1-based; 0 stands for -1.
LevelIndex(level) ==
  IF \E i \in 1..Len(levelOrder) : levelOrder[i] = level
  THEN CHOOSE i \in 1..Len(levelOrder) : levelOrder[i] = level
  ELSE 0

\* parentId of a top-level node (the field is absent).
NoParent == <<>>

\* Ids: `group-7` is <<"group", 7>>, `type-pdf-course-3` is
\* <<"type", "pdf", <<"course", 3>>>>.
GroupId(k) == <<"group", k>>
MajorId(k) == <<"major", k>>
CourseId(k) == <<"course", k>>
TypeId(rt, parentId) == <<"type", rt, parentId>>

\* Number(node.id.split("<level>-")[1]) of a group, major or course id.
NaturalKey(id) == id[2]

(***************************************************************************)
(* The aggregation endpoint.  Four catalogues: an empty one; one with      *)
(* two groups of one major each, in which course 101 is listed under both  *)
(* majors and has more resource types than one expansion may attach; one   *)
(* with a single group of one major with one course without resources; and *)
(* one whose only group lists the same major key twice.  (The budgets of   *)
(* the model leave no room for two groups that are both expanded by        *)
(* loadRoot, so a key repeated under two groups is stood for by a key      *)
(* repeated under one.)                                                    *)
(***************************************************************************)
Backends == {"catalog", "single", "empty", "repeat"}

\* The catalogues on which the zoom buttons and gestures are explored, and
\* those on which the buttons of the error banner are.
ViewportBackends == {"single"}
ReloadBackends == {"single", "empty"}

GroupItems(b) ==
  IF b = "catalog" THEN <<1, 2>>
  ELSE IF b = "single" THEN <<3>>
  ELSE IF b = "repeat" THEN <<4>>
  ELSE <<>>

MajorItems(b, g) ==
  IF b = "single" THEN (IF g = 3 THEN <<31>> ELSE <<>>)
  ELSE IF b = "repeat" THEN (IF g = 4 THEN <<41, 41>> ELSE <<>>)
  ELSE IF b # "catalog" THEN <<>>
  ELSE IF g = 1 THEN <<11>>
  ELSE IF g = 2 THEN <<21>>
  ELSE <<>>

CourseItems(b, m) ==
  IF b = "single" THEN (IF m = 31 THEN <<301>> ELSE <<>>)
  ELSE IF b # "catalog" THEN <<>>
  ELSE IF m \in {11, 21} THEN <<101>>
  ELSE <<>>

TypeItems(b, c) ==
  IF b # "catalog" THEN <<>>
  ELSE IF c = 101 THEN <<"doc", "ppt", "video">>
  ELSE <<>>

\* data.items of resourceApi.summary for the children of `node`.
SummaryItems(b, node, nextLevel) ==
  IF nextLevel = "major" THEN MajorItems(b, NaturalKey(node.id))
  ELSE IF nextLevel = "course" THEN CourseItems(b, NaturalKey(node.id))
  ELSE IF node.level = "course" THEN TypeItems(b, NaturalKey(node.id))
  ELSE <<>>

VARIABLES
  backend,          \* which catalogue the endpoint serves
  faulty,           \* whether calls to the endpoint may fail
  nodes,            \* useState<GraphNode[]>: the node list, in array order
  error,            \* useState error: banner with the reload actions
  loading,          \* useState loading: a loadRoot is running
  warn,             \* useState warn: the amber banner
  erroredNodes,     \* useState Set<string> of ids marked errored
  initialNodesRef,  \* snapshot of the node list taken by loadRoot
  initialWarnRef,   \* snapshot of the warning taken by loadRoot
  pending,          \* bag of the node objects held by the expandNode calls
                    \* suspended in `await fetchChildren`
  loads,            \* loadRoot calls suspended in an await
  transform,        \* useState<d3.ZoomTransform>: the zoom transform
  initialTransformRef,  \* the transform of the automatic fit
  selected          \* useState selected: the node shown in the detail panel

vars == <<backend, faulty, nodes, error, loading, warn, erroredNodes,
          initialNodesRef, initialWarnRef, pending, loads,
          transform, initialTransformRef, selected>>

Null == "null"

Node(id, level, parentId, expanded, isLoading) ==
  [id |-> id, level |-> level, parentId |-> parentId,
   expanded |-> expanded, loading |-> isLoading]

Ids(list) == {list[i].id : i \in 1..Len(list)}

RemoveAt(s, i) == SubSeq(s, 1, i - 1) \o SubSeq(s, i + 1, Len(s))

\* Array.prototype.filter
RECURSIVE FilterOut(_, _)
FilterOut(list, drop) ==
  IF list = <<>> THEN <<>>
  ELSE IF Head(list).id \in drop THEN FilterOut(Tail(list), drop)
  ELSE <<Head(list)>> \o FilterOut(Tail(list), drop)


\* prev.map((n) => (n.id === id ? f(n) : n)) for the two flag updates used.
SetLoading(list, id, v) ==
  [i \in 1..Len(list) |->
     IF list[i].id = id THEN [list[i] EXCEPT !.loading = v] ELSE list[i]]

StopLoadingCollapsed(list, id) ==
  [i \in 1..Len(list) |->
     IF list[i].id = id
     THEN [list[i] EXCEPT !.loading = FALSE, !.expanded = FALSE]
     ELSE list[i]]

\* The ids `collect(id)` adds to toRemove: every node reached from id by
\* following parentId links downwards.
RECURSIVE collect(_, _)
collect(prev, id) ==
  LET kids == {prev[i].id : i \in {j \in 1..Len(prev) : prev[j].parentId = id}}
  IN  kids \cup UNION {collect(prev, k) : k \in kids}

\* Faulty variant of MapValues: every entry is kept, a repeated id too.
MapValuesKeepsAll(acc, rest) == acc \o rest

\* new Map() filled by merged.forEach((n) => map.set(n.id, n)), read back
\* with Array.from(map.values()): a repeated id keeps its first position and
\* takes the last value.
RECURSIVE MapValues(_, _)
MapValues(acc, rest) ==
  IF rest = <<>> THEN acc
  ELSE LET n == Head(rest)
           hit == {i \in 1..Len(acc) : acc[i].id = n.id}
       IN  IF hit = {}
           THEN MapValues(Append(acc, n), Tail(rest))
           ELSE MapValues([i \in 1..Len(acc) |-> IF i \in hit THEN n ELSE acc[i]],
                          Tail(rest))

\* list.slice(0, MAX_CHILDREN) when the response is longer than the cap.
Truncate(items) ==
  IF Len(items) > MAX_CHILDREN THEN SubSeq(items, 1, MAX_CHILDREN) ELSE items

\* The warning fetchChildren leaves behind: the truncation notice or null.
FetchWarn(items) == IF Len(items) > MAX_CHILDREN THEN "truncated" ELSE Null

\* Faulty variant of ChildNode: the id counts the nodes listed so far.
ChildNodeByCount(node, nextLevel, item) ==
  IF nextLevel = "major"
  THEN Node(MajorId(item + Len(nodes)), "major", node.id, FALSE, FALSE)
  ELSE IF nextLevel = "course"
  THEN Node(CourseId(item + Len(nodes)), "course", node.id, FALSE, FALSE)
  ELSE Node(TypeId(item, node.id), "type", node.id, FALSE, FALSE)

\* fetchChildren: the child nodes built from the (truncated) response.
ChildNode(node, nextLevel, item) ==
  IF nextLevel = "major" THEN Node(MajorId(item), "major", node.id, FALSE, FALSE)
  ELSE IF nextLevel = "course" THEN Node(CourseId(item), "course", node.id, FALSE, FALSE)
  ELSE Node(TypeId(item, node.id), "type", node.id, FALSE, FALSE)

fetchChildren(b, node, nextLevel) ==
  LET list == Truncate(SummaryItems(b, node, nextLevel))
  IN  [i \in 1..Len(list) |-> ChildNode(node, nextLevel, list[i])]

\* Faulty variant of CollapseNodes: only the direct children are removed.
CollapseNodesShallow(prev, node) ==
  LET kids == {prev[i].id : i \in {j \in 1..Len(prev) : prev[j].parentId = node.id}}
      base == FilterOut(prev, kids \cup {node.id})
  IN  Append(base, [node EXCEPT !.expanded = FALSE])

\* The collapse updater of expandNode.
CollapseNodes(prev, node) ==
  LET toRemove == collect(prev, node.id)
      base == FilterOut(prev, toRemove \cup {node.id})
  IN  Append(base, [node EXCEPT !.expanded = FALSE])

\* Faulty variant of MergeNodes: the node is put back without expanded: true.
MergeNodesCollapsed(prev, node, children) ==
  LET toRemove == collect(prev, node.id)
      base == FilterOut(prev, toRemove \cup {node.id})
      merged == base \o <<[node EXCEPT !.loading = FALSE]>> \o children
      vals == MapValues(<<>>, merged)
  IN  [i \in 1..Len(vals) |->
         IF vals[i].id \in Ids(children)
         THEN [vals[i] EXCEPT !.parentId = node.id]
         ELSE vals[i]]

\* The merge updater of expandNode, below the hard-ceiling test.
MergeNodes(prev, node, children) ==
  LET toRemove == collect(prev, node.id)
      base == FilterOut(prev, toRemove \cup {node.id})
      merged == base \o <<[node EXCEPT !.expanded = TRUE, !.loading = FALSE]>>
                     \o children
      vals == MapValues(<<>>, merged)
  IN  [i \in 1..Len(vals) |->
         IF vals[i].id \in Ids(children)
         THEN [vals[i] EXCEPT !.parentId = node.id]
         ELSE vals[i]]

\* Faulty variant of CommitNodes: the hard ceiling is tested against the list
\* alone, so children that would overflow it are merged anyway.
CommitNodesNoCeiling(prev, node, children) ==
  IF Len(prev) > MAX_NODES_HARD
  THEN StopLoadingCollapsed(prev, node.id)
  ELSE MergeNodes(prev, node, children)

\* The updater run when the fetch has returned `children`.
CommitNodes(prev, node, children) ==
  IF Len(prev) + Len(children) > MAX_NODES_HARD
  THEN StopLoadingCollapsed(prev, node.id)
  ELSE MergeNodes(prev, node, children)

\* The warning left by the same updater (the later safeWarn wins).
CommitWarn(prev, children, fetched) ==
  LET total == Len(prev) + Len(children)
  IN  IF total > MAX_NODES_HARD THEN "hard"
      ELSE IF total > MAX_NODES_TOTAL THEN "soft"
      ELSE fetched

(***************************************************************************)
(* The layout memo: the tree handed to d3.hierarchy, the ids that get a    *)
(* position and the edges, and what the render guards let through.         *)
(***************************************************************************)
\* childrenMap.get(id) || []: the ids of the nodes with that parentId.
childrenMap(list, id) ==
  {list[i].id : i \in {j \in 1..Len(list) : list[j].parentId = id}}

\* The ids in build(id): the id and those of the subtrees of its children.
RECURSIVE build(_, _)
build(list, id) ==
  {id} \cup UNION {build(list, c) : c \in childrenMap(list, id)}

\* nodes.filter((n) => !n.parentId)
roots(list) == {list[i].id : i \in {j \in 1..Len(list) : list[j].parentId = NoParent}}

\* Faulty variant of positions: every listed id gets a position.
positionsOfAll(list) == Ids(list)

\* Object.keys(positioned): the ids of root.descendants() but "root".
positions(list) == UNION {build(list, r) : r \in roots(list)}

\* edges: one {from, to} per node with a parentId.
edges(list) ==
  {<<list[i].parentId, list[i].id>> : i \in {j \in 1..Len(list) : list[j].parentId # NoParent}}

\* The lines drawn: the edges whose two ends have a position.
DrawnEdges(list) ==
  {e \in edges(list) : e[1] \in positions(list) /\ e[2] \in positions(list)}

\* The boxes drawn: the nodes whose id has a position.
DrawnNodes(list) == {n \in {list[i] : i \in 1..Len(list)} : n.id \in positions(list)}

\* const width = 820
width == 820

\* d.depth of a positioned id in the hierarchy under the synthetic "root".
RECURSIVE depth(_, _)
depth(list, id) ==
  IF id \in roots(list) THEN 1
  ELSE 1 + depth(list, (CHOOSE n \in {list[i] : i \in 1..Len(list)} : n.id = id).parentId)

\* The depth of the deepest positioned id (0 for an empty tree).
treeDepth(list) ==
  LET ds == {depth(list, id) : id \in positions(list)}
  IN  IF ds = {} THEN 0 ELSE CHOOSE d \in ds : \A x \in ds : x <= d

\* positioned[id].x, the coordinate along the depth of the tree.
\* d3.tree().size([height - 120, width - 80]) spreads the levels over the
\* given extent: a node of depth d is put at d * (width - 80) / treeDepth.
\* The quotient is kept as a fraction.
depthAxis(list, id) ==
  [num |-> depth(list, id) * (width - 80), den |-> treeDepth(list)]

\* `positioned` has an entry for a node exactly when the node hangs, through
\* present parents, under a node without parentId; only those are drawn and
\* can be clicked.
RECURSIVE Positioned(_, _)
Positioned(list, n) ==
  \/ n.parentId = NoParent
  \/ \E i \in 1..Len(list) :
       /\ list[i].id = n.parentId
       /\ Positioned(list, list[i])

Rendered(list) == {list[i] : i \in {j \in 1..Len(list) : Positioned(list, list[j])}}


\* A ref that is null or holds a value.
NullRef == [isSet |-> FALSE, value |-> <<>>]
RefTo(v) == [isSet |-> TRUE, value |-> v]

(***************************************************************************)
(* The zoom transform.  A scale is m/10 * 1.1^e: the zoom buttons multiply *)
(* by 1.1 and 1/1.1, every other scale in the model is a whole number of   *)
(* tenths.  The translation is an origin (that of the identity or that of  *)
(* a fit) moved by `pan` drag units.                                       *)
(***************************************************************************)
Scale(m, e) == IF m = 11 THEN [m |-> 10, e |-> e + 1] ELSE [m |-> m, e |-> e]

Pow(b, n) == IF n <= 0 THEN 1 ELSE LET RECURSIVE P(_)
                                       P(i) == IF i = 0 THEN 1 ELSE b * P(i - 1)
                                   IN  P(n)

\* s <= t and s >= t for a scale s and a number of tenths t.
ScaleAtMost(s, t) ==
  IF s.e >= 0 THEN s.m * Pow(11, s.e) <= t * Pow(10, s.e)
  ELSE s.m * Pow(10, 0 - s.e) <= t * Pow(11, 0 - s.e)

ScaleAtLeast(s, t) ==
  IF s.e >= 0 THEN s.m * Pow(11, s.e) >= t * Pow(10, s.e)
  ELSE s.m * Pow(10, 0 - s.e) >= t * Pow(11, 0 - s.e)

\* d3.zoomIdentity
zoomIdentity == [k |-> Scale(10, 0), at |-> <<"identity">>, pan |-> 0]

\* Depth of the deepest drawn node (a group has depth 1): d3.tree puts a
\* node of depth d at d / maxDepth of the layout width.
MaxDepth(list) ==
  LET depths == {LevelIndex(n.level) : n \in Rendered(list)}
  IN  CHOOSE d \in depths : \A x \in depths : x <= d

\* The transform the auto-fit effect computes from `positioned`: the scale is
\* min((width - 80) / boxWidth, (height - 80) / boxHeight, 1.1), which is 1.1
\* for the boxes of a tree.size([height - 120, width - 80]) layout of a
\* handful of nodes.  The translation centres the box of the drawn nodes:
\* across the layout the box is centred whatever the tree, along it the box
\* runs from the groups' column to the deepest column, so the translation is
\* a function of the depth of the drawn tree.
FitTransform(list) ==
  [k |-> Scale(11, 0), at |-> <<"fit", MaxDepth(list)>>, pan |-> 0]

\* The auto-fit effect, run after a render with a new node list: it fits once,
\* while initialTransformRef is null and something is drawn.
AutoFit(list) ==
  IF Rendered(list) # {} /\ ~initialTransformRef.isSet
  THEN /\ initialTransformRef' = RefTo(FitTransform(list))
       /\ transform' = FitTransform(list)
  ELSE UNCHANGED <<transform, initialTransformRef>>

NextLevel(node) == levelOrder[LevelIndex(node.level) + 1]

Terminal(node) ==
  LevelIndex(node.level) = 0 \/ LevelIndex(node.level) = Len(levelOrder)

\* A loadRoot call suspended in its group fetch (stage "groups") or in the
\* fetchChildren of its idx-th group (stage "majors") with the list built so far.
LoadAt(stage, idx, current) == [stage |-> stage, idx |-> idx, current |-> current]

\* The fields of a clicked node that the detail panel keeps and reads.
Picked(n) == [id |-> n.id, level |-> n.level, parentId |-> n.parentId]

\* selected === null
NoSelection == [id |-> <<>>, level |-> Null, parentId |-> NoParent]

\* Mount: the first render, whose effect has called loadRoot().
Init ==
  /\ backend \in Backends
  /\ faulty \in BOOLEAN
  /\ nodes = <<>>
  /\ error = Null
  /\ loading = TRUE
  /\ warn = Null
  /\ erroredNodes = {}
  /\ initialNodesRef = NullRef
  /\ initialWarnRef = Null
  /\ pending = EmptyBag
  /\ loads = <<LoadAt("groups", 0, <<>>)>>
  /\ transform = zoomIdentity
  /\ initialTransformRef = NullRef
  /\ selected = NoSelection

(***************************************************************************)
(* A click on a drawn node: setSelected(n), then expandNode(n, true).      *)
(* Of the selected object the state keeps the fields that are read from    *)
(* it again (by buildLink): id, level and parentId; the resource type of a *)
(* type node is the second part of its id.                                 *)
(***************************************************************************)
\* Faulty variant of ExpandTerminal: the node is marked loading.
ExpandTerminalMarksLoading(n) ==
  /\ Terminal(n)
  /\ selected' = Picked(n)
  /\ nodes' = SetLoading(nodes, n.id, TRUE)
  /\ UNCHANGED <<backend, faulty, error, loading, warn, erroredNodes,
                 initialNodesRef, initialWarnRef, pending, loads,
                 transform, initialTransformRef>>

\* A type node (or an unknown level): return at once.
ExpandTerminal(n) ==
  /\ Terminal(n)
  /\ selected' = Picked(n)
  /\ UNCHANGED <<backend, faulty, nodes, error, loading, warn, erroredNodes,
                 initialNodesRef, initialWarnRef, pending, loads,
                 transform, initialTransformRef>>

\* An expanded node: deep-prune collapse, no fetch.
Collapse(n) ==
  /\ ~Terminal(n)
  /\ n.expanded
  /\ selected' = Picked(n)
  /\ nodes' = CollapseNodes(nodes, n)
  /\ AutoFit(nodes')
  /\ UNCHANGED <<backend, faulty, error, loading, warn, erroredNodes,
                 initialNodesRef, initialWarnRef, pending, loads>>

\* A collapsed node that is loading: return.
ExpandLoading(n) ==
  /\ ~Terminal(n)
  /\ ~n.expanded
  /\ n.loading
  /\ selected' = Picked(n)
  /\ UNCHANGED <<backend, faulty, nodes, error, loading, warn, erroredNodes,
                 initialNodesRef, initialWarnRef, pending, loads,
                 transform, initialTransformRef>>

PendingCap == IF faulty THEN MaxPendingFaulty ELSE MaxPending

\* A collapsed node: mark it loading and call the endpoint; the call is
\* suspended with the clicked node object in its closure.
Expand(n) ==
  /\ ~Terminal(n)
  /\ ~n.expanded
  /\ ~n.loading
  /\ BagCardinality(pending) < PendingCap
  /\ selected' = Picked(n)
  /\ nodes' = SetLoading(nodes, n.id, TRUE)
  /\ AutoFit(nodes')
  /\ pending' = pending (+) SetToBag({n})
  /\ UNCHANGED <<backend, faulty, error, loading, warn, erroredNodes,
                 initialNodesRef, initialWarnRef, loads>>

\* The call made for `node` returns: the rest of the try block.
FetchReturn(node) ==
  LET items == SummaryItems(backend, node, NextLevel(node))
      children == fetchChildren(backend, node, NextLevel(node))
  IN  /\ nodes' = CommitNodes(nodes, node, children)
      /\ AutoFit(nodes')
      /\ warn' = CommitWarn(nodes, children, FetchWarn(items))
      /\ erroredNodes' = erroredNodes \ {node.id}
      /\ pending' = pending (-) SetToBag({node})
      /\ UNCHANGED <<backend, faulty, error, loading,
                     initialNodesRef, initialWarnRef, loads, selected>>

\* Faulty variant of FetchFail: the catch block leaves the loading flag.
FetchFailKeepsLoading(node) ==
  /\ faulty
  /\ Cardinality(erroredNodes \cup {node.id}) <= MaxErrored
  /\ error' = "failed"
  /\ erroredNodes' = erroredNodes \cup {node.id}
  /\ pending' = pending (-) SetToBag({node})
  /\ UNCHANGED <<backend, faulty, nodes, loading, warn, initialNodesRef, initialWarnRef,
                 loads, transform, initialTransformRef, selected>>

\* The call made for `node` fails: the catch block.
FetchFail(node) ==
  /\ faulty
  /\ Cardinality(erroredNodes \cup {node.id}) <= MaxErrored
  /\ error' = "failed"
  /\ erroredNodes' = erroredNodes \cup {node.id}
  /\ nodes' = SetLoading(nodes, node.id, FALSE)
  /\ AutoFit(nodes')
  /\ pending' = pending (-) SetToBag({node})
  /\ UNCHANGED <<backend, faulty, loading, warn, initialNodesRef, initialWarnRef, loads,
                 selected>>

(***************************************************************************)
(* resetView: the snapshot is restored when there is one, and the view     *)
(* goes to the fit transform, or to the identity when there is none.       *)
(***************************************************************************)
resetView ==
  /\ IF initialNodesRef.isSet
     THEN /\ nodes' = initialNodesRef.value
          /\ error' = Null
          /\ erroredNodes' = {}
          /\ warn' = initialWarnRef
          /\ selected' = NoSelection
     ELSE UNCHANGED <<nodes, error, erroredNodes, warn, selected>>
  /\ IF initialTransformRef.isSet
     THEN /\ transform' = initialTransformRef.value
          /\ UNCHANGED initialTransformRef
     ELSE IF initialNodesRef.isSet /\ Rendered(initialNodesRef.value) # {}
          THEN AutoFit(initialNodesRef.value)
          ELSE /\ transform' = zoomIdentity
               /\ UNCHANGED initialTransformRef
  /\ UNCHANGED <<backend, faulty, loading, initialNodesRef, initialWarnRef, pending, loads>>

\* Detail panel, button "close": setSelected(null).
closeSelected ==
  /\ selected # NoSelection
  /\ selected' = NoSelection
  /\ UNCHANGED <<backend, faulty, nodes, error, loading, warn, erroredNodes,
                 initialNodesRef, initialWarnRef, pending, loads,
                 transform, initialTransformRef>>

(***************************************************************************)
(* buildLink(n): the query parameters of the link to the resource list,    *)
(* in the order in which they are appended.                                *)
(***************************************************************************)
\* nodes.find((x) => x.id === id): the first match, or undefined.
Find(list, id) ==
  LET hit == {i \in 1..Len(list) : list[i].id = id}
  IN  IF hit = {} THEN NoSelection
      ELSE Picked(list[CHOOSE i \in hit : \A j \in hit : i <= j])

\* x?.id.startsWith("<level>-")
StartsWith(x, level) == x.id # <<>> /\ x.id[1] = level

\* params.append(key, x.id.split("<level>-")[1]) under the startsWith test.
AppendIf(key, x, level) ==
  IF StartsWith(x, level) THEN <<<<key, NaturalKey(x.id)>>>> ELSE <<>>

\* Faulty variant of buildLink: a course takes its group from its own parent.
buildLinkOneLevelUp(n) ==
  LET parent == Find(nodes, n.parentId)
      parentParent == Find(nodes, parent.parentId)
      parentGroup == Find(nodes, parentParent.parentId)
  IN  IF n.level = "group" THEN <<<<"group_id", NaturalKey(n.id)>>>>
      ELSE IF n.level = "major"
      THEN <<<<"major_id", NaturalKey(n.id)>>>> \o AppendIf("group_id", parent, "group")
      ELSE IF n.level = "course"
      THEN <<<<"course_id", NaturalKey(n.id)>>>>
             \o AppendIf("major_id", parent, "major")
             \o AppendIf("group_id", parent, "group")
      ELSE IF n.level = "type"
      THEN (IF n.id[2] # "" THEN <<<<"resource_type", n.id[2]>>>> ELSE <<>>)
             \o AppendIf("course_id", parent, "course")
             \o AppendIf("major_id", parentParent, "major")
             \o AppendIf("group_id", parentGroup, "group")
      ELSE <<>>

buildLink(n) ==
  LET parent == Find(nodes, n.parentId)
      parentParent == Find(nodes, parent.parentId)
      parentGroup == Find(nodes, parentParent.parentId)
  IN  IF n.level = "group" THEN <<<<"group_id", NaturalKey(n.id)>>>>
      ELSE IF n.level = "major"
      THEN <<<<"major_id", NaturalKey(n.id)>>>> \o AppendIf("group_id", parent, "group")
      ELSE IF n.level = "course"
      THEN <<<<"course_id", NaturalKey(n.id)>>>>
             \o AppendIf("major_id", parent, "major")
             \o AppendIf("group_id", parentParent, "group")
      ELSE IF n.level = "type"
      THEN (IF n.id[2] # "" THEN <<<<"resource_type", n.id[2]>>>> ELSE <<>>)
             \o AppendIf("course_id", parent, "course")
             \o AppendIf("major_id", parentParent, "major")
             \o AppendIf("group_id", parentGroup, "group")
      ELSE <<>>

(***************************************************************************)
(* The viewport input.                                                     *)
(***************************************************************************)
ViewportInput == backend \in ViewportBackends

\* Buttons "+" and "-": zoomBy(1.1) and zoomBy(1 / 1.1), by up = 1 and up = -1.
\* zoom.transform is handed transform.scale(k) as it is.
zoomBy(up) ==
  /\ ViewportInput
  /\ transform.k.e + up \in (0 - MaxZoomExp)..MaxZoomExp
  /\ transform' = [transform EXCEPT !.k = Scale(transform.k.m, transform.k.e + up)]
  /\ UNCHANGED <<backend, faulty, nodes, error, loading, warn, erroredNodes,
                 initialNodesRef, initialWarnRef, pending, loads, initialTransformRef,
                 selected>>

\* Wheel or pinch over the svg: d3 scales by a power of two and clamps the
\* result to the scale extent; here the wheel is turned to either end of it,
\* with the pointer on the point that keeps the translation.
Wheel(k) ==
  /\ ViewportInput
  /\ transform.k # Scale(k, 0)
  /\ transform' = [transform EXCEPT !.k = Scale(k, 0)]
  /\ UNCHANGED <<backend, faulty, nodes, error, loading, warn, erroredNodes,
                 initialNodesRef, initialWarnRef, pending, loads, initialTransformRef,
                 selected>>

\* Drag on the svg: the translation moves.
Drag(d) ==
  /\ ViewportInput
  /\ d # transform.pan
  /\ transform' = [transform EXCEPT !.pan = d]
  /\ UNCHANGED <<backend, faulty, nodes, error, loading, warn, erroredNodes,
                 initialNodesRef, initialWarnRef, pending, loads, initialTransformRef,
                 selected>>


(***************************************************************************)
(* loadRoot.                                                               *)
(***************************************************************************)
\* Entry of loadRoot up to the group-level call.
LoadRootStart ==
  /\ Len(loads) < MaxLoads
  /\ loading' = TRUE
  /\ error' = Null
  /\ warn' = Null
  /\ initialTransformRef' = NullRef
  /\ initialNodesRef' = NullRef
  /\ initialWarnRef' = Null
  /\ loads' = Append(loads, LoadAt("groups", 0, <<>>))

ReloadInput == backend \in ReloadBackends

\* Error banner, button "reload": loadRoot().
Reload ==
  /\ ReloadInput
  /\ error # Null
  /\ LoadRootStart
  /\ UNCHANGED <<backend, faulty, nodes, erroredNodes, pending, transform, selected>>

\* Error banner, button "clear and retry": empties the list, then loadRoot().
ClearRetry ==
  /\ ReloadInput
  /\ error # Null
  /\ nodes' = <<>>
  /\ selected' = NoSelection
  /\ LoadRootStart
  /\ UNCHANGED <<backend, faulty, erroredNodes, pending, transform>>

\* catch and finally of loadRoot, whichever call failed.
LoadRootFail(i) ==
  /\ faulty
  /\ error' = "failed"
  /\ loading' = FALSE
  /\ loads' = RemoveAt(loads, i)
  /\ UNCHANGED <<backend, faulty, nodes, warn, erroredNodes,
                 initialNodesRef, initialWarnRef, pending,
                 transform, initialTransformRef, selected>>

\* One pass of the loop body after fetchChildren(groupNode, "major") returned.
GroupNode(g) == Node(GroupId(g), "group", NoParent, FALSE, FALSE)

\* Faulty variant of ConcatGroup: the cap is tested without the majors.
ConcatGroupIgnoresMajors(current, groupNode, majors) ==
  IF Len(current) + 1 > INITIAL_EXPAND_CAP
  THEN Append(current, [groupNode EXCEPT !.expanded = FALSE])
  ELSE Append(current, [groupNode EXCEPT !.expanded = TRUE]) \o majors

ConcatGroup(current, groupNode, majors) ==
  IF Len(current) + 1 + Len(majors) > INITIAL_EXPAND_CAP
  THEN Append(current, [groupNode EXCEPT !.expanded = FALSE])
  ELSE Append(current, [groupNode EXCEPT !.expanded = TRUE]) \o majors

\* The warning computed after the loop.
InitialWarn(current) == IF Len(current) > IDEAL_MAX_NODES THEN "ideal" ELSE Null

\* The group-level call returns.
LoadRootGroups(i) ==
  /\ loads[i].stage = "groups"
  /\ IF GroupItems(backend) = <<>>
     THEN /\ nodes' = <<>>
          /\ warn' = "empty"
          /\ initialWarnRef' = "empty"
          /\ loading' = FALSE
          /\ loads' = RemoveAt(loads, i)
     ELSE /\ loads' = [loads EXCEPT ![i] = LoadAt("majors", 1, <<>>)]
          /\ UNCHANGED <<nodes, warn, initialWarnRef, loading>>
  /\ UNCHANGED <<backend, faulty, error, erroredNodes, initialNodesRef, pending,
                 transform, initialTransformRef, selected>>

\* Faulty variant of LoadRootMajors: the call for the next group goes out
\* with the list as it was before this group was merged.
LoadRootMajorsUnmerged(i) ==
  LET groups == GroupItems(backend)
      groupNode == GroupNode(groups[loads[i].idx])
      items == SummaryItems(backend, groupNode, "major")
      majors == fetchChildren(backend, groupNode, "major")
      current == ConcatGroup(loads[i].current, groupNode, majors)
  IN  /\ loads[i].stage = "majors"
      /\ IF loads[i].idx < Len(groups)
         THEN /\ loads' = [loads EXCEPT ![i] = LoadAt("majors", loads[i].idx + 1,
                                                     loads[i].current)]
              /\ warn' = FetchWarn(items)
              /\ UNCHANGED <<nodes, initialNodesRef, initialWarnRef, loading,
                             transform, initialTransformRef>>
         ELSE /\ warn' = IF InitialWarn(current) # Null THEN InitialWarn(current)
                         ELSE FetchWarn(items)
              /\ nodes' = current
              /\ AutoFit(current)
              /\ initialNodesRef' = RefTo(current)
              /\ initialWarnRef' = InitialWarn(current)
              /\ loading' = FALSE
              /\ loads' = RemoveAt(loads, i)
      /\ UNCHANGED <<backend, faulty, error, erroredNodes, pending, selected>>

\* The major call of the group in turn returns: merge it, then either call
\* for the next group or publish the list and take the snapshot.
LoadRootMajors(i) ==
  LET groups == GroupItems(backend)
      groupNode == GroupNode(groups[loads[i].idx])
      items == SummaryItems(backend, groupNode, "major")
      majors == fetchChildren(backend, groupNode, "major")
      current == ConcatGroup(loads[i].current, groupNode, majors)
  IN  /\ loads[i].stage = "majors"
      /\ IF loads[i].idx < Len(groups)
         THEN /\ loads' = [loads EXCEPT ![i] = LoadAt("majors", loads[i].idx + 1, current)]
              /\ warn' = FetchWarn(items)
              /\ UNCHANGED <<nodes, initialNodesRef, initialWarnRef, loading,
                             transform, initialTransformRef>>
         ELSE /\ warn' = IF InitialWarn(current) # Null THEN InitialWarn(current)
                         ELSE FetchWarn(items)
              /\ nodes' = current
              /\ AutoFit(current)
              /\ initialNodesRef' = RefTo(current)
              /\ initialWarnRef' = InitialWarn(current)
              /\ loading' = FALSE
              /\ loads' = RemoveAt(loads, i)
      /\ UNCHANGED <<backend, faulty, error, erroredNodes, pending, selected>>

Next ==
  \/ \E n \in Rendered(nodes) : ExpandTerminal(n)
  \/ \E n \in Rendered(nodes) : Collapse(n)
  \/ \E n \in Rendered(nodes) : ExpandLoading(n)
  \/ \E n \in Rendered(nodes) : Expand(n)
  \/ \E node \in BagToSet(pending) : FetchReturn(node)
  \/ \E node \in BagToSet(pending) : FetchFail(node)
  \/ resetView
  \/ closeSelected
  \/ \E up \in {-1, 1} : zoomBy(up)
  \/ \E k \in {minScale, maxScale} : Wheel(k)
  \/ \E d \in 0..MaxPan : Drag(d)
  \/ Reload
  \/ ClearRetry
  \/ \E i \in 1..Len(loads) : LoadRootGroups(i)
  \/ \E i \in 1..Len(loads) : LoadRootMajors(i)
  \/ \E i \in 1..Len(loads) : LoadRootFail(i)

Spec == Init /\ [][Next]_vars

(***************************************************************************)
(* The endpoint answers: every call to it returns or fails in the end.     *)
(* The ids that an expansion can be asked for are those of the groups,     *)
(* majors and courses of the catalogues; a call for an id that stays in    *)
(* flight is completed.  Under this fairness the component is run on the   *)
(* one-group catalogue, with and without failures, through every operation *)
(* on the node list: clicks, completions, reset, the reload buttons and    *)
(* the steps of loadRoot.                                                  *)
(***************************************************************************)
LoadableIds ==
  {GroupId(g) : g \in 1..4} \cup {MajorId(m) : m \in {11, 21, 31, 41}}
    \cup {CourseId(c) : c \in {101, 301}}

Complete(id) ==
  \E node \in BagToSet(pending) :
    node.id = id /\ (FetchReturn(node) \/ FetchFail(node))

LiveInit == Init /\ backend = "single"

LiveNext ==
  \/ \E n \in Rendered(nodes) : Collapse(n)
  \/ \E n \in Rendered(nodes) : ExpandLoading(n)
  \/ \E n \in Rendered(nodes) : Expand(n)
  \/ \E node \in BagToSet(pending) : FetchReturn(node)
  \/ \E node \in BagToSet(pending) : FetchFail(node)
  \/ resetView
  \/ Reload
  \/ ClearRetry
  \/ \E i \in 1..Len(loads) : LoadRootGroups(i)
  \/ \E i \in 1..Len(loads) : LoadRootMajors(i)
  \/ \E i \in 1..Len(loads) : LoadRootFail(i)

LiveSpec ==
  LiveInit /\ [][LiveNext]_vars /\ \A id \in LoadableIds : WF_vars(Complete(id))

TypeOK ==
  /\ backend \in Backends
  /\ loading \in BOOLEAN
  /\ faulty \in BOOLEAN
  /\ BagCardinality(pending) <= PendingCap
  /\ Len(loads) <= MaxLoads


(***************************************************************************)
(* Vocabulary of the properties.                                           *)
(***************************************************************************)
NodeSet(list) == {list[i] : i \in 1..Len(list)}

Present(id) == id \in Ids(nodes)

\* The present nodes with the given id.
NodesWithId(list, id) == {n \in NodeSet(list) : n.id = id}

\* Ids of the present nodes that hang under id through present nodes:
\* the least set closed under "has a parent that is id or is in the set".
RECURSIVE GrowSubtree(_, _, _)
GrowSubtree(list, id, acc) ==
  LET more == {n.id : n \in {m \in NodeSet(list) :
                               m.parentId = id \/ m.parentId \in acc}}
  IN  IF more \subseteq acc THEN acc ELSE GrowSubtree(list, id, acc \cup more)

SubtreeIds(list, id) == GrowSubtree(list, id, {})

\* Number of endpoint calls in flight for the node id.
RECURSIVE SumCopies(_, _)
SumCopies(bag, entries) ==
  IF entries = {} THEN 0
  ELSE LET e == CHOOSE x \in entries : TRUE
       IN  CopiesIn(e, bag) + SumCopies(bag, entries \ {e})

Outstanding(id) == SumCopies(pending, {e \in BagToSet(pending) : e.id = id})

\* This step is the completion (return or failure) of the call held by e.
CompletionOf(e) ==
  /\ e \in BagToSet(pending)
  /\ pending' = pending (-) SetToBag({e})

\* ... its failure: the catch block raises the banner and marks the id.
FailureOf(e) == CompletionOf(e) /\ error' = "failed" /\ e.id \in erroredNodes'

\* ... its return.
ReturnOf(e) == CompletionOf(e) /\ (error' = Null \/ e.id \notin erroredNodes')

\* This step has the effect of a resetView that found a snapshot.
ResetStep ==
  /\ initialNodesRef.isSet
  /\ initialTransformRef.isSet
  /\ nodes' = initialNodesRef.value
  /\ transform' = initialTransformRef.value
  /\ error' = Null
  /\ erroredNodes' = {}
  /\ warn' = initialWarnRef
  /\ UNCHANGED <<loading, initialNodesRef, initialWarnRef, initialTransformRef,
                 pending, loads>>

(***************************************************************************)
(* C1.  Stale-fetch guard: when the node of an outstanding call has been   *)
(* removed from the node list (by a collapse of an ancestor, a reset or a  *)
(* loadRoot rebuild), the completion of that call leaves the node list     *)
(* unchanged.                                                              *)
(***************************************************************************)
C1_StaleCompletionDiscarded ==
  [][\A e \in BagToSet(pending) :
       (CompletionOf(e) /\ ~Present(e.id)) => nodes' = nodes]_vars

(***************************************************************************)
(* C2.  No orphan: every node with a parentId has its parent in the list.  *)
(***************************************************************************)
C2_NoOrphan ==
  \A n \in NodeSet(nodes) : n.parentId # NoParent => Present(n.parentId)

(***************************************************************************)
(* C3.  A node that is not expanded has no descendant in the list.         *)
(***************************************************************************)
C3_CollapsedHasNoDescendant ==
  \A n \in NodeSet(nodes) : ~n.expanded => SubtreeIds(nodes, n.id) = {}

(***************************************************************************)
(* C4.  Every child attached by the latest successful expansion of an      *)
(* expanded node (the endpoint's children of that node, cut to the         *)
(* per-expansion cap) is present with that node as its parent.             *)
(***************************************************************************)
AttachedBy(n) == IF Terminal(n) THEN {} ELSE Ids(fetchChildren(backend, n, NextLevel(n)))

C4_ExpandedKeepsChildren ==
  \A n \in NodeSet(nodes) :
    n.expanded =>
      \A c \in AttachedBy(n) :
        \E m \in NodeSet(nodes) : m.id = c /\ m.parentId = n.id


(***************************************************************************)
(* C5.  Collapsing an expanded node is synchronous and prunes deep: the    *)
(* step that turns a drawn, expanded node N into a collapsed one without   *)
(* completing a call or touching banner, snapshot or loadRoot state, and   *)
(* that is not a reset to the snapshot, leaves exactly the previous nodes   *)
(* minus every transitive descendant of N, with N present once and         *)
(* collapsed, every other node as it was, and no call issued.              *)
(***************************************************************************)
CollapseStepOf(n) ==
  /\ n.expanded
  /\ ~Terminal(n)
  /\ ~ResetStep
  /\ \E m \in NodeSet(nodes') : m.id = n.id /\ ~m.expanded
  /\ BagCardinality(pending') >= BagCardinality(pending)
  /\ UNCHANGED <<error, loading, warn, erroredNodes,
                 initialNodesRef, initialWarnRef, loads>>

PrunedBy(n) == {m \in NodeSet(nodes) : m.id \in SubtreeIds(nodes, n.id)}

\* The positions of the list that hold a descendant of n.
PrunedAt(n) == {i \in 1..Len(nodes) : nodes[i].id \in SubtreeIds(nodes, n.id)}

C5_CollapseIsDeepPrune ==
  [][\A n \in Rendered(nodes) :
       CollapseStepOf(n) =>
         /\ NodeSet(nodes') =
              ((NodeSet(nodes) \ PrunedBy(n)) \ {n}) \cup {[n EXCEPT !.expanded = FALSE]}
         /\ Len(nodes') = Len(nodes) - Cardinality(PrunedAt(n))
         /\ pending' = pending]_vars

\* Group 1, expanded by loadRoot, has been collapsed by a click: no call has
\* returned since the snapshot was taken (the warning is still the
\* snapshot's), the group is collapsed, re-inserted last, and nothing hangs
\* under it.
C5_Witness ==
  /\ initialNodesRef.isSet
  /\ \E s \in NodeSet(initialNodesRef.value) : s.id = GroupId(1) /\ s.expanded
  /\ warn = "ideal"
  /\ nodes # <<>>
  /\ nodes[Len(nodes)] = Node(GroupId(1), "group", NoParent, FALSE, FALSE)
  /\ ~Present(MajorId(11))

(***************************************************************************)
(* C6.  At most one endpoint call is outstanding per node.                 *)
(***************************************************************************)
C6_OneCallPerNode ==
  \A e \in BagToSet(pending) : Outstanding(e.id) <= 1

(***************************************************************************)
(* C7.  The node list never holds more than MAX_NODES_HARD nodes.          *)
(***************************************************************************)
C7_HardCeiling == Len(nodes) <= MAX_NODES_HARD

(***************************************************************************)
(* C8.  Hard-ceiling rollback: when the call for a present, collapsed node *)
(* N returns and N's children together with the present nodes would exceed *)
(* MAX_NODES_HARD, nothing is attached: the list is the old one with N not *)
(* loading and not expanded, N is not marked errored, and the warning      *)
(* shown is the hard-ceiling one.                                          *)
(***************************************************************************)
WouldExceedHard(e) ==
  Cardinality(Ids(nodes) \cup Ids(fetchChildren(backend, e, NextLevel(e))))
    > MAX_NODES_HARD

PresentCollapsed(id) ==
  /\ Present(id)
  /\ \A m \in NodesWithId(nodes, id) : ~m.expanded

C8_HardCeilingRollback ==
  [][\A e \in BagToSet(pending) :
       (ReturnOf(e) /\ PresentCollapsed(e.id) /\ WouldExceedHard(e)) =>
         /\ Len(nodes') = Len(nodes)
         /\ \A i \in 1..Len(nodes) :
              nodes'[i] = IF nodes[i].id = e.id
                          THEN [nodes[i] EXCEPT !.loading = FALSE, !.expanded = FALSE]
                          ELSE nodes[i]
         /\ e.id \notin erroredNodes'
         /\ warn' = "hard"]_vars

\* The hard-ceiling warning is up over a full list in which a collapsed,
\* idle node has no child: its expansion was rolled back.
C8_Witness ==
  /\ warn = "hard"
  /\ Len(nodes) = MAX_NODES_HARD
  /\ pending = EmptyBag
  /\ erroredNodes = {}
  /\ \E n \in NodeSet(nodes) :
       /\ n.id = GroupId(2)
       /\ ~n.expanded /\ ~n.loading
       /\ SubtreeIds(nodes, n.id) = {}

(***************************************************************************)
(* C9.  When the call for a present node N fails, N ends not loading, not  *)
(* expanded and marked errored, no node is added or removed and every      *)
(* other node is as it was.                                                *)
(***************************************************************************)
C9_FailureIsContained ==
  [][\A e \in BagToSet(pending) :
       (FailureOf(e) /\ Present(e.id)) =>
         /\ Len(nodes') = Len(nodes)
         /\ \A i \in 1..Len(nodes) :
              IF nodes[i].id = e.id
              THEN /\ nodes'[i].id = e.id
                   /\ ~nodes'[i].loading
                   /\ ~nodes'[i].expanded
              ELSE nodes'[i] = nodes[i]
         /\ e.id \in erroredNodes']_vars

(***************************************************************************)
(* C10.  The graph-level error state is raised only by a failing loadRoot: *)
(* whenever the error banner comes up, a loadRoot call has just ended.     *)
(***************************************************************************)
C10_ErrorOnlyFromLoadRoot ==
  [][(error = Null /\ error' # Null) => Len(loads') < Len(loads)]_vars

(***************************************************************************)
(* C11.  Retry after a failure.  A call in flight for a node whose id is   *)
(* marked errored is the retry issued by a further click on the failed     *)
(* node.  As stated: when that call returns, the node is expanded, not     *)
(* loading, not errored, and every fetched child is present under it.      *)
(***************************************************************************)
RetryReturnOf(e) == ReturnOf(e) /\ e.id \in erroredNodes

RetryAttached(e) ==
  /\ NodesWithId(nodes', e.id) # {}
  /\ \A m \in NodesWithId(nodes', e.id) : m.expanded /\ ~m.loading
  /\ e.id \notin erroredNodes'
  /\ \A c \in AttachedBy(e) :
       \E m \in NodeSet(nodes') : m.id = c /\ m.parentId = e.id

C11_RetrySucceeds ==
  [][\A e \in BagToSet(pending) : RetryReturnOf(e) => RetryAttached(e)]_vars

\* The count the code tests against the hard ceiling when the call of e returns.
CommitTotal(e) == Len(nodes) + Len(fetchChildren(backend, e, NextLevel(e)))

(***************************************************************************)
(* C11, amended.  The same, unless the length of the node list plus the    *)
(* number of fetched children exceeds MAX_NODES_HARD.                      *)
(***************************************************************************)
C11_RetrySucceedsUnderCeiling ==
  [][\A e \in BagToSet(pending) :
       (RetryReturnOf(e) /\ CommitTotal(e) <= MAX_NODES_HARD) => RetryAttached(e)]_vars

\* The error banner of a failed expansion is still up, no id is marked any
\* more and no call is in flight: the retry of the failed node has returned,
\* and course 101 is expanded with its children.
C11_Witness ==
  /\ backend = "catalog"
  /\ error = "failed"
  /\ erroredNodes = {}
  /\ pending = EmptyBag
  /\ \E m \in NodeSet(nodes) :
       /\ m.id = CourseId(101) /\ m.expanded /\ ~m.loading
       /\ \A c \in AttachedBy(m) :
            \E k \in NodeSet(nodes) : k.id = c /\ k.parentId = m.id

(***************************************************************************)
(* C12.  A resetView that finds the snapshot of the most recent loadRoot   *)
(* leaves exactly the snapshot's nodes (same order, ids, parents and       *)
(* expanded flags), none of them loading, no id marked errored, and the    *)
(* transform of the automatic fit of that node list.                       *)
(***************************************************************************)
C12_ResetRestoresSnapshot ==
  [][(resetView /\ initialNodesRef.isSet) =>
       /\ nodes' = initialNodesRef.value
       /\ \A m \in NodeSet(nodes') : ~m.loading
       /\ erroredNodes' = {}
       /\ transform' = FitTransform(initialNodesRef.value)]_vars

(***************************************************************************)
(* C13.  No expand, collapse or completion of an expansion's call changes  *)
(* the transform.                                                          *)
(***************************************************************************)
ExpandOrCollapseStep ==
  \/ \E n \in Rendered(nodes) : Collapse(n) \/ Expand(n)
  \/ \E e \in BagToSet(pending) : FetchReturn(e) \/ FetchFail(e)

C13_NoRefitOnExpand ==
  [][ExpandOrCollapseStep => transform' = transform]_vars

(***************************************************************************)
(* C14.  The list a successful loadRoot publishes: every group of the      *)
(* endpoint is in it once, as a top-level node, in response order; the     *)
(* nodes before a group plus the group plus its majors are within          *)
(* INITIAL_EXPAND_CAP exactly when the group is expanded, and then its     *)
(* majors follow it, collapsed, with the group as parent; otherwise the    *)
(* group is collapsed and no node has it as parent; there is no other node.*)
(***************************************************************************)
LoadRootPublishes ==
  \E i \in 1..Len(loads) : LoadRootMajors(i) /\ Len(loads') < Len(loads)

MajorsOf(g) == fetchChildren(backend, GroupNode(g), "major")

PositionOf(list, id) == CHOOSE i \in 1..Len(list) : list[i].id = id

GroupAsLoaded(list, g) ==
  LET at == PositionOf(list, GroupId(g))
      majors == MajorsOf(g)
      fits == (at - 1) + 1 + Len(majors) <= INITIAL_EXPAND_CAP
  IN  /\ Cardinality({i \in 1..Len(list) : list[i].id = GroupId(g)}) = 1
      /\ list[at] = Node(GroupId(g), "group", NoParent, fits, FALSE)
      /\ IF fits
         THEN \A j \in 1..Len(majors) :
                /\ at + j <= Len(list)
                /\ list[at + j] = Node(majors[j].id, "major", GroupId(g), FALSE, FALSE)
         ELSE \A i \in 1..Len(list) : list[i].parentId # GroupId(g)

AsLoaded(list) ==
  LET groups == GroupItems(backend)
  IN  /\ \A k \in 1..Len(groups) : GroupId(groups[k]) \in Ids(list)
      /\ \A k \in 1..Len(groups) : GroupAsLoaded(list, groups[k])
      /\ \A k \in 1..(Len(groups) - 1) :
           PositionOf(list, GroupId(groups[k])) < PositionOf(list, GroupId(groups[k + 1]))
      /\ \A i \in 1..Len(list) :
           \/ \E k \in 1..Len(groups) : list[i].id = GroupId(groups[k])
           \/ /\ list[i].level = "major"
              /\ \E k \in 1..Len(groups) :
                   /\ list[i].parentId = GroupId(groups[k])
                   /\ list[i].id \in Ids(MajorsOf(groups[k]))

LoadRootEnds == Len(loads') < Len(loads)

C15_LoadRootClearsState ==
  [][LoadRootEnds =>
       /\ erroredNodes' = {}
       /\ \A m \in NodeSet(nodes') : ~m.loading
       /\ \/ nodes' = <<>>
          \/ LoadRootPublishes /\ AsLoaded(nodes')]_vars

(***************************************************************************)
(* C16.  The expansion to majors in loadRoot is best-effort: a loadRoot    *)
(* call that has received the groups ends with every group in the node     *)
(* list as a top-level node and without raising the error banner, whether  *)
(* or not a major-level call failed.                                       *)
(***************************************************************************)
EndsAfterGroups(i) == loads[i].stage = "majors" /\ loads' = RemoveAt(loads, i)

C16_MajorsBestEffort ==
  [][\A i \in 1..Len(loads) :
       EndsAfterGroups(i) =>
         /\ error' = error
         /\ \A k \in 1..Len(GroupItems(backend)) :
              \E m \in NodeSet(nodes') :
                m.id = GroupId(GroupItems(backend)[k]) /\ m.parentId = NoParent]_vars

(***************************************************************************)
(* C17.  Truncation: when the call of an expansion returns more items than *)
(* MAX_CHILDREN and the expansion is committed, the children under the     *)
(* node are exactly the first MAX_CHILDREN items, in response order, and   *)
(* the warning shown is the truncation notice.                             *)
(***************************************************************************)
TruncatedReturnOf(e) ==
  /\ ReturnOf(e)
  /\ Len(SummaryItems(backend, e, NextLevel(e))) > MAX_CHILDREN
  /\ CommitTotal(e) <= MAX_NODES_HARD

FirstItems(e) == SubSeq(SummaryItems(backend, e, NextLevel(e)), 1, MAX_CHILDREN)

FirstItemsAttached(e) ==
  LET first == FirstItems(e)
      ids == [j \in 1..Len(first) |-> ChildNode(e, NextLevel(e), first[j]).id]
  IN  /\ {m.id : m \in {x \in NodeSet(nodes') : x.parentId = e.id}}
           = {ids[j] : j \in 1..Len(ids)}
      /\ \A j \in 1..Len(ids) :
           Cardinality({i \in 1..Len(nodes') : nodes'[i].id = ids[j]}) = 1
      /\ \A j \in 1..(Len(ids) - 1) :
           PositionOf(nodes', ids[j]) < PositionOf(nodes', ids[j + 1])

C17_TruncationNoticed ==
  [][\A e \in BagToSet(pending) :
       TruncatedReturnOf(e) => FirstItemsAttached(e) /\ warn' = "truncated"]_vars

(***************************************************************************)
(* C18.  Soft ceiling: when the call for a present, collapsed node returns *)
(* and the nodes present together with the fetched children are more than *)
(* MAX_NODES_TOTAL but not more than MAX_NODES_HARD, the children are      *)
(* attached, the node is expanded and not loading, and the warning shown   *)
(* is the performance warning; when they are at most MAX_NODES_TOTAL the   *)
(* expansion is committed and no budget warning is shown.                  *)
(***************************************************************************)
ProspectiveTotal(e) ==
  Cardinality(Ids(nodes) \cup Ids(fetchChildren(backend, e, NextLevel(e))))

Committed(e) ==
  /\ NodesWithId(nodes', e.id) # {}
  /\ \A m \in NodesWithId(nodes', e.id) : m.expanded /\ ~m.loading
  /\ \A c \in AttachedBy(e) :
       \E m \in NodeSet(nodes') : m.id = c /\ m.parentId = e.id

C18_SoftCeiling ==
  [][\A e \in BagToSet(pending) :
       (ReturnOf(e) /\ PresentCollapsed(e.id)) =>
         /\ (ProspectiveTotal(e) > MAX_NODES_TOTAL /\ ProspectiveTotal(e) <= MAX_NODES_HARD)
              => (Committed(e) /\ warn' = "soft")
         /\ ProspectiveTotal(e) <= MAX_NODES_TOTAL
              => (Committed(e) /\ warn' \notin {"soft", "hard"})]_vars

(***************************************************************************)
(* C19.  The scale of the transform is within [minScale, maxScale].        *)
(***************************************************************************)
C19_ScaleWithinExtent ==
  ScaleAtLeast(transform.k, minScale) /\ ScaleAtMost(transform.k, maxScale)

(***************************************************************************)
(* C20.  The major-level calls of a loadRoot are sequential: while the     *)
(* call for the idx-th group is outstanding, the list the call has built   *)
(* holds exactly the groups before it, each merged with the majors it was  *)
(* given, so the cap test of each group counts all earlier groups' nodes.  *)
(***************************************************************************)
MergedBefore(load) ==
  LET groups == GroupItems(backend)
      cur == load.current
  IN  /\ load.idx \in 1..Len(groups)
      /\ \A k \in 1..Len(groups) :
           (k < load.idx) <=> (GroupId(groups[k]) \in Ids(cur))
      /\ \A k \in 1..(load.idx - 1) : GroupAsLoaded(cur, groups[k])
      /\ \A j \in 1..Len(cur) :
           \/ cur[j].parentId = NoParent
           \/ \E k \in 1..(load.idx - 1) : cur[j].parentId = GroupId(groups[k])

C21_UniqueIds ==
  \A i, j \in 1..Len(nodes) : nodes[i].id = nodes[j].id => i = j

(***************************************************************************)
(* C22.  Ids are derived from the level, the natural key and the parent    *)
(* only: whenever the call of an expansion of a node returns and the       *)
(* expansion is committed, in whatever state and after whatever collapses, *)
(* resets and reloads, the nodes under that node are exactly those whose   *)
(* ids are built from the next level and the keys of the response (and,    *)
(* for a resource type, the id of the node), so that a repeated expansion  *)
(* of the node yields the same ids.                                        *)
(***************************************************************************)
KeyedIds(e) ==
  LET keys == Truncate(SummaryItems(backend, e, NextLevel(e)))
  IN  {IF NextLevel(e) = "type"
       THEN <<"type", keys[j], e.id>>
       ELSE <<NextLevel(e), keys[j]>> : j \in 1..Len(keys)}

ChildIdsUnder(list, id) == {m.id : m \in {x \in NodeSet(list) : x.parentId = id}}

C22_IdsDerivedFromKeys ==
  [][\A e \in BagToSet(pending) :
       (ReturnOf(e) /\ CommitTotal(e) <= MAX_NODES_HARD) =>
         ChildIdsUnder(nodes', e.id) = KeyedIds(e)]_vars

\* Group 1, which loadRoot lists first and expands, is listed after group 2:
\* it has been collapsed and then expanded again by a click, and the node
\* under it is major 11 as before.
C22_Witness ==
  /\ backend = "catalog"
  /\ pending = EmptyBag
  /\ Len(nodes) = 3
  /\ nodes[1] = Node(GroupId(2), "group", NoParent, FALSE, FALSE)
  /\ nodes[2] = Node(GroupId(1), "group", NoParent, TRUE, FALSE)
  /\ nodes[3] = Node(MajorId(11), "major", GroupId(1), FALSE, FALSE)

(***************************************************************************)
(* C23.  Levels follow the tree: a node without parentId is a group, a     *)
(* node whose parent is in the list is one level below it in levelOrder,   *)
(* no node has a type node as parent; and a click on a type node issues no *)
(* call and changes nothing.                                               *)
(***************************************************************************)
LevelsFollowTree ==
  \A n \in NodeSet(nodes) :
    /\ n.parentId = NoParent => n.level = "group"
    /\ n.parentId # NoParent => LevelIndex(n.level) > 1
    /\ \A q \in NodeSet(nodes) :
         q.id = n.parentId => LevelIndex(n.level) = LevelIndex(q.level) + 1
    /\ n.level = "type" => ChildIdsUnder(nodes, n.id) = {}

TerminalClick == \E n \in Rendered(nodes) : n.level = "type" /\ ExpandTerminal(n)

C23_LevelsAndTerminal ==
  /\ []LevelsFollowTree
  /\ [][TerminalClick =>
          UNCHANGED <<nodes, pending, error, loading, warn, erroredNodes,
                      initialNodesRef, initialWarnRef, loads,
                      transform, initialTransformRef>>]_vars

\* A chain of all four levels is drawn, down to a resource type that can be
\* clicked.
C23_Witness ==
  \E t \in Rendered(nodes) :
    /\ t.level = "type"
    /\ \E c \in Rendered(nodes) :
         /\ c.id = t.parentId /\ c.level = "course"
         /\ \E m \in Rendered(nodes) :
              /\ m.id = c.parentId /\ m.level = "major"
              /\ \E g \in Rendered(nodes) : g.id = m.parentId /\ g.level = "group"

(***************************************************************************)
(* C24.  The navigation filter.  For the node of the detail panel, and for *)
(* every drawn node (the target of a double click), if every node on its   *)
(* parentId chain up to a group is in the list, the parameters buildLink   *)
(* emits are exactly one per level of the chain (group_id, major_id,       *)
(* course_id, resource_type), each with the natural key of the chain's     *)
(* node of that level, and nothing else.  (buildLink is an operator of the *)
(* state: computing it changes nothing.)                                   *)
(***************************************************************************)
FilterKey(level) ==
  IF level = "group" THEN "group_id"
  ELSE IF level = "major" THEN "major_id"
  ELSE IF level = "course" THEN "course_id"
  ELSE "resource_type"

\* The node and its ancestors, following parentId through the list; a link
\* to a node that is not in the list ends the chain with NoSelection.
RECURSIVE ChainOf(_, _)
ChainOf(list, n) ==
  IF n = NoSelection \/ n.parentId = NoParent THEN <<n>>
  ELSE <<n>> \o ChainOf(list, Find(list, n.parentId))

ChainComplete(list, n) ==
  LET chain == ChainOf(list, n)
  IN  \A i \in 1..Len(chain) : chain[i] # NoSelection

ExpectedFilter(list, n) ==
  LET chain == ChainOf(list, n)
  IN  {<<FilterKey(chain[i].level), chain[i].id[2]>> : i \in 1..Len(chain)}

FilterExact(n) ==
  LET link == buildLink(n)
  IN  /\ {link[i] : i \in 1..Len(link)} = ExpectedFilter(nodes, n)
      /\ \A i, j \in 1..Len(link) : link[i][1] = link[j][1] => i = j

LinkSources == {Picked(m) : m \in Rendered(nodes)} \cup ({selected} \ {NoSelection})

C24_FilterFollowsChain ==
  \A n \in LinkSources : ChainComplete(nodes, n) => FilterExact(n)

\* The detail panel shows a resource type whose course, major and group are
\* all in the list: the link carries the four parameters.
C24_Witness ==
  /\ selected.level = "type"
  /\ ChainComplete(nodes, selected)
  /\ Len(buildLink(selected)) = 4

(***************************************************************************)
(* C25.  The merge of a committed expansion.  When the call for N returns  *)
(* and the expansion is committed (list length plus children within        *)
(* MAX_NODES_HARD): the nodes outside N's former subtree, N apart, keep    *)
(* their places at the head of the list, unchanged unless they are among   *)
(* the fetched children, in which case they stay where they are and end    *)
(* with parentId = N.id; N follows once, expanded and not loading; the     *)
(* children that were not in the list follow in response order, each once, *)
(* with parentId = N.id and the level below N's.                           *)
(***************************************************************************)
CommittedReturnOf(e) == ReturnOf(e) /\ CommitTotal(e) <= MAX_NODES_HARD

\* The list without N and without N's subtree.
OutsideOf(e) == FilterOut(nodes, SubtreeIds(nodes, e.id) \cup {e.id})

\* The fetched children that are not outside already, in response order.
RECURSIVE NewOnes(_, _)
NewOnes(children, known) ==
  IF children = <<>> THEN <<>>
  ELSE IF Head(children).id \in known THEN NewOnes(Tail(children), known)
  ELSE <<Head(children)>> \o NewOnes(Tail(children), known \cup {Head(children).id})

MergedAsStated(e) ==
  LET children == fetchChildren(backend, e, NextLevel(e))
      outside == OutsideOf(e)
      fresh == NewOnes(children, Ids(outside))
  IN  /\ Len(nodes') = Len(outside) + 1 + Len(fresh)
      /\ \A i \in 1..Len(outside) :
           IF outside[i].id \in Ids(children)
           THEN /\ nodes'[i].id = outside[i].id
                /\ nodes'[i].parentId = e.id
                /\ nodes'[i].level = NextLevel(e)
           ELSE nodes'[i] = outside[i]
      /\ nodes'[Len(outside) + 1] = [e EXCEPT !.expanded = TRUE, !.loading = FALSE]
      /\ \A j \in 1..Len(fresh) :
           nodes'[Len(outside) + 1 + j] =
             Node(fresh[j].id, NextLevel(e), e.id, FALSE, FALSE)
      /\ \A c \in Ids(children) :
           Cardinality({i \in 1..Len(nodes') : nodes'[i].id = c}) = 1
      /\ Cardinality({i \in 1..Len(nodes') : nodes'[i].id = e.id}) = 1

C25_MergeInPlace ==
  [][\A e \in BagToSet(pending) : CommittedReturnOf(e) => MergedAsStated(e)]_vars

\* Course 101 is listed under both majors.  Major 21 is expanded, and course
\* 101 stands before it in the list, with major 21 as parent: the course was
\* first attached under major 11 and has been updated in place by the
\* expansion of major 21.
C25_Witness ==
  /\ backend = "catalog"
  /\ \E i, j \in 1..Len(nodes) :
       /\ i < j
       /\ nodes[i].id = CourseId(101) /\ nodes[i].parentId = MajorId(21)
       /\ nodes[j].id = MajorId(21) /\ nodes[j].expanded /\ ~nodes[j].loading

(***************************************************************************)
(* C26.  The layout gives a position to exactly the nodes that hang,       *)
(* through nodes of the list, under a node without parentId; a node whose  *)
(* parent is not in the list has no position, is not drawn, and no line is *)
(* drawn to it or from it.                                                 *)
(***************************************************************************)
\* The nodes reached from the top-level nodes by parent-child links.
RECURSIVE GrowReached(_, _)
GrowReached(list, acc) ==
  LET more == {n \in NodeSet(list) : n.parentId = NoParent \/ n.parentId \in acc}
      ids == {n.id : n \in more}
  IN  IF ids \subseteq acc THEN acc ELSE GrowReached(list, acc \cup ids)

ReachedIds(list) == GrowReached(list, {})

ParentAbsent(list, n) == n.parentId # NoParent /\ n.parentId \notin Ids(list)

C26_LayoutExcludesOrphans ==
  /\ positions(nodes) = ReachedIds(nodes)
  /\ DrawnNodes(nodes) = {n \in NodeSet(nodes) : n.id \in ReachedIds(nodes)}
  /\ \A n \in NodeSet(nodes) :
       ParentAbsent(nodes, n) =>
         /\ n.id \notin positions(nodes)
         /\ n \notin DrawnNodes(nodes)
         /\ \A e \in DrawnEdges(nodes) : e[1] # n.id /\ e[2] # n.id

\* A node whose parent is not in the list has a child of its own in the
\* list, next to a top-level node that is drawn.
C26_Witness ==
  /\ \E n \in NodeSet(nodes) :
       /\ ParentAbsent(nodes, n)
       /\ \E c \in NodeSet(nodes) : c.parentId = n.id
       /\ n \notin DrawnNodes(nodes)
  /\ DrawnNodes(nodes) # {}

(***************************************************************************)
(* C27.  The coordinate along the depth of the tree depends on the depth   *)
(* of the node alone: no expand, collapse or completion of an expansion's  *)
(* call changes that coordinate of a node that has a position before and   *)
(* after.                                                                  *)
(***************************************************************************)
SameFraction(a, b) == a.num * b.den = b.num * a.den

C27_DepthAxisFixed ==
  [][ExpandOrCollapseStep =>
       \A id \in positions(nodes) \cap positions(nodes') :
         SameFraction(depthAxis(nodes, id), depthAxis(nodes', id))]_vars

(***************************************************************************)
(* C28.  No expand, collapse or completion of an expansion's call changes  *)
(* the order in the node list of two siblings (two nodes with the same     *)
(* parentId, or two top-level nodes) that are in the list before and       *)
(* after.                                                                  *)
(***************************************************************************)
SiblingsIn(list, a, b) ==
  \E x, y \in NodeSet(list) : x.id = a /\ y.id = b /\ x.parentId = y.parentId

Before(list, a, b) ==
  \E i, j \in 1..Len(list) : i < j /\ list[i].id = a /\ list[j].id = b

C28_SiblingOrderKept ==
  [][ExpandOrCollapseStep =>
       \A a, b \in Ids(nodes) \cap Ids(nodes') :
         (a # b /\ SiblingsIn(nodes, a, b) /\ SiblingsIn(nodes', a, b)
            /\ Before(nodes, a, b)) => Before(nodes', a, b)]_vars

(***************************************************************************)
(* C29.  Every id marked errored is the id of a node that is in the list   *)
(* and is not expanded.                                                    *)
(***************************************************************************)
C29_ErroredPresentCollapsed ==
  \A id \in erroredNodes :
    /\ Present(id)
    /\ \A m \in NodesWithId(nodes, id) : ~m.expanded

(***************************************************************************)
(* C30.  No node stays loading forever: if the endpoint answers every      *)
(* call, a node that is loading is, at some later time, absent from the    *)
(* list or in it and not loading, whatever clicks, resets and loadRoot     *)
(* calls come in between.  (IsLoading ~> ~IsLoading, which is the same as  *)
(* []<>~IsLoading.)                                                        *)
(***************************************************************************)
IsLoading(id) == \E n \in NodeSet(nodes) : n.id = id /\ n.loading

C30_LoadingEnds ==
  \A id \in LoadableIds : []<>~IsLoading(id)

\* What makes it so on every catalogue: a node that is loading has a call in
\* flight for its id, and the completion of a call for an id leaves no node
\* with that id loading.
LoadingHasCall ==
  \A n \in NodeSet(nodes) : n.loading => Outstanding(n.id) >= 1

CompletionStopsLoading ==
  [][\A e \in BagToSet(pending) :
       CompletionOf(e) => \A m \in NodesWithId(nodes', e.id) : ~m.loading]_vars

\* The call of a click has failed: the node it was made for is marked, is in
\* the list, and is no longer loading.
C30_Witness ==
  /\ pending = EmptyBag
  /\ \E n \in NodeSet(nodes) : n.id \in erroredNodes /\ ~n.loading /\ ~n.expanded

====
